---- MODULE Spec2Model ----
(***************************************************************************)
(* Model of weather_bot.py: the driver under  if __name__ == "__main__",   *)
(* get_weather and update_website.  One process run is the walk of pc from *)
(* line 50 to "exited"; index.html outlives the process and is the only    *)
(* state shared between successive runs started by the external invoker.   *)
(*                                                                         *)
(* Text is modelled as a sequence of tokens so that "the file contains     *)
(* ..." and "the class contains ..." are decidable; non-ASCII glyphs of    *)
(* the source strings are written as ASCII token names.                    *)
(* print() is assumed not to raise (stdout open and able to encode).       *)
(***************************************************************************)
EXTENDS Integers, Sequences, FiniteSets, TLC

\* ---- bounds of the model ----
MaxRuns == 2
MaxClock == 3
TicksPerSecond == 2

MaxCalls == 3

VARIABLES pc, file, weather, backup_weather, e, uncaught, stdout, calls,
          runs, now, status_text, css_class, file_at_start

vars == <<pc, file, weather, backup_weather, e, uncaught, stdout, calls,
          runs, now, status_text, css_class, file_at_start>>

\* ---- string literals of the source ----
SuccessMsg == <<"(sun)", "Sunny, 25C", "(Source: Primary API)">>
BackupMsg == <<"(cloud)", "Data Unavailable", "(System Healed - Using Backup Mode)">>
ClassSuccess == <<"status", "success">>
\* faulty variant: the handler passes the success class
ClassWarningAsSuccess == <<"status", "success">>
ClassWarning == <<"status", "warning">>
ConnectionFailed == "Connection to Primary API Failed!"
OSErrorMsg == "OSError"
NoException == "none"

\* datetime.now().strftime("%Y-%m-%d %H:%M:%S"): sub-second part is dropped
Strftime(t) == "2026-01-01 00:00:" \o ToString(t \div TicksPerSecond)

\* faulty variant: the timestamp also lands in the status heading
RenderStampsStatus(text, cls, t) ==
    <<"<head>", "<h2 class=">> \o cls \o <<">">> \o text \o <<Strftime(t)>>
        \o <<"</h2>", "Last Updated:", Strftime(t), "</html>">>
\* the f-string template of update_website
Render(text, cls, t) ==
    <<"<head>", "<h2 class=">> \o cls \o <<">">> \o text
        \o <<"</h2>", "Last Updated:", Strftime(t), "</html>">>

\* faulty variant: the file is opened in append mode
UpdateWebsiteAppend(f, text, cls, t) ==
    LET html_content == Render(text, cls, t) IN
      {[file |-> f \o html_content, raised |-> FALSE]}
      \cup {[file |-> f, raised |-> TRUE]}
      \cup {[file |-> f \o SubSeq(html_content, 1, k), raised |-> TRUE] :
               k \in 0..Len(html_content)}
\* update_website(status_text, css_class) run at instant t on file content f:
\* the set of outcomes [file, raised].  open(..., "w") either raises and
\* leaves the file alone, or truncates it; after truncation the write/close
\* either completes or raises with some prefix of the document on disk.
UpdateWebsite(f, text, cls, t) ==
    LET html_content == Render(text, cls, t) IN
      {[file |-> html_content, raised |-> FALSE]}
      \cup {[file |-> f, raised |-> TRUE]}
      \cup {[file |-> SubSeq(html_content, 1, k), raised |-> TRUE] :
               k \in 0..Len(html_content)}

\* record of one call made by the running process (observation only)
Call(fn, text, cls, raised) ==
    [fn |-> fn, text |-> text, cls |-> cls, raised |-> raised]

\* content index.html may have before the first run
InitialFiles == {<<>>, <<"<head>", "stale">>}

\* exit status the interpreter gives the process
ExitStatus == IF uncaught = NoException THEN 0 ELSE 1

Init ==
    /\ pc = "idle"
    /\ file \in InitialFiles
    /\ weather = <<>>
    /\ backup_weather = <<>>
    /\ e = NoException
    /\ uncaught = NoException
    /\ stdout = <<>>
    /\ calls = <<>>
    /\ runs = 0
    /\ now = 0
    /\ status_text = <<>>
    /\ css_class = <<>>
    /\ file_at_start = file

\* the harness inputs are not used by the driver
Driver == UNCHANGED <<status_text, css_class, file_at_start>>

\* the external invoker starts a fresh process
Start ==
    /\ pc \in {"idle", "exited"}
    /\ runs < MaxRuns
    /\ runs' = runs + 1
    /\ pc' = "L50"
    /\ weather' = <<>>
    /\ backup_weather' = <<>>
    /\ e' = NoException
    /\ uncaught' = NoException
    /\ stdout' = <<>>
    /\ calls' = <<>>
    /\ file_at_start' = file
    /\ UNCHANGED <<file, now, status_text, css_class>>

\* line 50, connection_stability = True: get_weather returns
GetWeatherReturns ==
    /\ pc = "L50"
    /\ weather' = SuccessMsg
    /\ calls' = Append(calls, Call("get_weather", <<>>, <<>>, FALSE))
    /\ pc' = "L51"
    /\ UNCHANGED <<file, backup_weather, e, uncaught, stdout, runs, now>>
    /\ Driver

\* faulty variant: the exception of get_weather escapes the driver
GetWeatherRaisesUncaught ==
    /\ pc = "L50"
    /\ calls' = Append(calls, Call("get_weather", <<>>, <<>>, TRUE))
    /\ uncaught' = ConnectionFailed
    /\ pc' = "exited"
    /\ UNCHANGED <<file, weather, backup_weather, e, stdout, runs, now>>
    /\ Driver
\* faulty variant: get_weather empties index.html before raising
GetWeatherRaisesClobbers ==
    /\ pc = "L50"
    /\ calls' = Append(calls, Call("get_weather", <<>>, <<>>, TRUE))
    /\ e' = ConnectionFailed
    /\ pc' = "L57"
    /\ file' = <<>>
    /\ UNCHANGED <<weather, backup_weather, uncaught, stdout, runs, now>>
    /\ Driver
\* line 50, connection_stability = False: get_weather raises, caught at 55
GetWeatherRaises ==
    /\ pc = "L50"
    /\ calls' = Append(calls, Call("get_weather", <<>>, <<>>, TRUE))
    /\ e' = ConnectionFailed
    /\ pc' = "L57"
    /\ UNCHANGED <<file, weather, backup_weather, uncaught, stdout, runs, now>>
    /\ Driver

\* line 51
PrintSuccess ==
    /\ pc = "L51"
    /\ stdout' = Append(stdout, "Success! Got weather data.")
    /\ pc' = "L53"
    /\ UNCHANGED <<file, weather, backup_weather, e, uncaught, calls, runs, now>>
    /\ Driver

\* line 53: update_website(weather, "status success") inside the try block;
\* an OSError is an Exception, so the handler at line 55 catches it
UpdateSuccess ==
    /\ pc = "L53"
    /\ \E r \in UpdateWebsite(file, weather, ClassSuccess, now) :
         /\ file' = r.file
         /\ calls' = Append(calls,
                Call("update_website", weather, ClassSuccess, r.raised))
         /\ IF r.raised
              THEN /\ e' = OSErrorMsg
                   /\ pc' = "L57"
              ELSE /\ e' = e
                   /\ pc' = "exited"
    /\ UNCHANGED <<weather, backup_weather, uncaught, stdout, runs, now>>
    /\ Driver

\* faulty variant: the handler goes back to get_weather (a retry)
PrintPrimaryFailedRetries ==
    /\ pc = "L57"
    /\ stdout' = Append(stdout, "Primary failed: " \o e)
    /\ pc' = IF Len(calls) < 3 THEN "L50" ELSE "L58"
    /\ UNCHANGED <<file, weather, backup_weather, e, uncaught, calls, runs, now>>
    /\ Driver
\* line 57
PrintPrimaryFailed ==
    /\ pc = "L57"
    /\ stdout' = Append(stdout, "Primary failed: " \o e)
    /\ pc' = "L58"
    /\ UNCHANGED <<file, weather, backup_weather, e, uncaught, calls, runs, now>>
    /\ Driver

\* line 58
PrintActivating ==
    /\ pc = "L58"
    /\ stdout' = Append(stdout, "Activating Auto-Healing Protocol...")
    /\ pc' = "L61"
    /\ UNCHANGED <<file, weather, backup_weather, e, uncaught, calls, runs, now>>
    /\ Driver

\* line 61
AssignBackup ==
    /\ pc = "L61"
    /\ backup_weather' = BackupMsg
    /\ pc' = "L64"
    /\ UNCHANGED <<file, weather, e, uncaught, stdout, calls, runs, now>>
    /\ Driver

\* line 64: update_website(backup_weather, "status warning") in the handler;
\* an exception raised here is not caught by anything
UpdateFallback ==
    /\ pc = "L64"
    /\ \E r \in UpdateWebsite(file, backup_weather, ClassWarning, now) :
         /\ file' = r.file
         /\ calls' = Append(calls,
                Call("update_website", backup_weather, ClassWarning, r.raised))
         /\ IF r.raised
              THEN /\ uncaught' = OSErrorMsg
                   /\ pc' = "exited"
              ELSE /\ uncaught' = uncaught
                   /\ pc' = "L65"
    /\ UNCHANGED <<weather, backup_weather, e, stdout, runs, now>>
    /\ Driver

\* line 65
PrintHealed ==
    /\ pc = "L65"
    /\ stdout' = Append(stdout, "System healed and website updated.")
    /\ pc' = "exited"
    /\ UNCHANGED <<file, weather, backup_weather, e, uncaught, calls, runs, now>>
    /\ Driver

\* the wall clock read by datetime.now() advances
Tick ==
    /\ now < MaxClock
    /\ now' = now + 1
    /\ UNCHANGED <<pc, file, weather, backup_weather, e, uncaught, stdout,
                   calls, runs, status_text, css_class, file_at_start>>

Next ==
    \/ Start
    \/ GetWeatherReturns
    \/ GetWeatherRaises
    \/ PrintSuccess
    \/ UpdateSuccess
    \/ PrintPrimaryFailed
    \/ PrintActivating
    \/ AssignBackup
    \/ UpdateFallback
    \/ PrintHealed
    \/ Tick

Spec == Init /\ [][Next]_vars

\* the driver's own statements: sequential code, each step runs once reached
DriverStep ==
    \/ GetWeatherReturns
    \/ GetWeatherRaises
    \/ PrintSuccess
    \/ UpdateSuccess
    \/ PrintPrimaryFailed
    \/ PrintActivating
    \/ AssignBackup
    \/ UpdateFallback
    \/ PrintHealed

FairSpec == Spec /\ WF_vars(DriverStep)

\* ---- update_website on its own: a caller applying it repeatedly ----
StatusTexts == {SuccessMsg, BackupMsg, <<"x">>}
CssClasses == {ClassSuccess, ClassWarning}

InitRender ==
    /\ pc = "harness"
    /\ file \in InitialFiles
    /\ status_text \in StatusTexts
    /\ css_class \in CssClasses
    /\ weather = <<>>
    /\ backup_weather = <<>>
    /\ e = NoException
    /\ uncaught = NoException
    /\ stdout = <<>>
    /\ calls = <<>>
    /\ runs = 0
    /\ now = 0
    /\ file_at_start = file

\* update_website(status_text, css_class), the caller surviving a raise
RenderCall ==
    /\ pc = "harness"
    /\ Len(calls) < MaxCalls
    /\ \E r \in UpdateWebsite(file, status_text, css_class, now) :
         /\ file' = r.file
         /\ calls' = Append(calls,
                Call("update_website", status_text, css_class, r.raised))
    /\ UNCHANGED <<pc, weather, backup_weather, e, uncaught, stdout, runs,
                   now, status_text, css_class, file_at_start>>

NextRender ==
    \/ RenderCall
    \/ Tick

SpecRender == InitRender /\ [][NextRender]_vars

\* ---- reading a document back ----
Has(s, tok) == \E i \in DOMAIN s : s[i] = tok
IndexOf(s, tok) == CHOOSE i \in DOMAIN s : s[i] = tok /\ \A j \in 1..(i-1) : s[j] # tok
\* a file that holds one whole document
IsDocument(f) ==
    /\ Len(f) >= 7
    /\ f[1] = "<head>" /\ f[2] = "<h2 class="
    /\ Has(f, ">") /\ Has(f, "</h2>")
    /\ IndexOf(f, ">") < IndexOf(f, "</h2>")
    /\ IndexOf(f, "</h2>") = Len(f) - 3
    /\ f[Len(f) - 2] = "Last Updated:"
    /\ f[Len(f)] = "</html>"
H2Class(f) == SubSeq(f, 3, IndexOf(f, ">") - 1)
H2Text(f) == SubSeq(f, IndexOf(f, ">") + 1, IndexOf(f, "</h2>") - 1)
MaskTimestamp(f) ==
    [i \in DOMAIN f |-> IF i > 1 /\ f[i - 1] = "Last Updated:" THEN "*" ELSE f[i]]

UpdateCalls == SelectSeq(calls, LAMBDA c : c.fn = "update_website")
GetCalls == SelectSeq(calls, LAMBDA c : c.fn = "get_weather")
GetWeatherReturned == \E i \in DOMAIN calls : calls[i].fn = "get_weather" /\ ~calls[i].raised
GetWeatherRaised == \E i \in DOMAIN calls : calls[i].fn = "get_weather" /\ calls[i].raised
WriteFailed == \E i \in DOMAIN calls : calls[i].fn = "update_website" /\ calls[i].raised
\* the run is over and its last call wrote index.html
FinishedByWriting ==
    /\ pc = "exited"
    /\ Len(calls) >= 1
    /\ calls[Len(calls)].fn = "update_website"
    /\ ~calls[Len(calls)].raised

\* C1: in every finished run update_website has been entered exactly once
\* (with the success arguments or with the fallback arguments, never both,
\* never neither).
C1_ExactlyOneRender ==
    pc = "exited" => Len(UpdateCalls) = 1

\* C2: a failed write to index.html is never handled: the failing call is
\* the last call of the run, the run is over with the exception uncaught and
\* a non-zero exit status.
C2_WriteErrorUnhandled ==
    \A i \in DOMAIN calls :
        (calls[i].fn = "update_website" /\ calls[i].raised)
            => /\ i = Len(calls)
               /\ pc = "exited"
               /\ uncaught = OSErrorMsg
               /\ ExitStatus # 0

\* C3: when a run finishes by writing index.html the document holds a
\* non-empty status message, and its class contains "success" exactly when
\* the message is the Success message and "warning" exactly when it is the
\* backup message.
C3_StyleMatchesVariant ==
    FinishedByWriting =>
        /\ IsDocument(file)
        /\ H2Text(file) # <<>>
        /\ H2Text(file) \in {SuccessMsg, BackupMsg}
        /\ Has(H2Class(file), "success") <=> (H2Text(file) = SuccessMsg)
        /\ Has(H2Class(file), "warning") <=> (H2Text(file) = BackupMsg)
C3_Witness ==
    /\ FinishedByWriting
    /\ GetWeatherRaised
    /\ H2Text(file) = BackupMsg
    /\ Has(H2Class(file), "warning")

\* C4: the file written by a run is a function of the decision: get_weather
\* returned => it contains "Sunny, 25C" and the class success; get_weather
\* raised => it contains "Data Unavailable" and the class warning.
C4_OutputFollowsDecision ==
    FinishedByWriting =>
        /\ GetWeatherReturned =>
               (Has(file, "Sunny, 25C") /\ Has(H2Class(file), "success"))
        /\ GetWeatherRaised =>
               (Has(file, "Data Unavailable") /\ Has(H2Class(file), "warning"))

\* C5: get_weather is called exactly once per run and is the first call;
\* when it raised, the only other call of the run is update_website with
\* the backup message and the warning class.
C5_CatchAndSubstitute ==
    /\ Len(GetCalls) <= 1
    /\ pc \notin {"idle", "L50"} => (Len(GetCalls) = 1 /\ calls[1].fn = "get_weather")
    /\ GetWeatherRaised =>
         /\ Len(calls) <= 2
         /\ pc = "exited" => Len(calls) = 2
         /\ pc = "L65" => Len(calls) = 2
         /\ Len(calls) = 2 =>
              /\ calls[2].fn = "update_website"
              /\ calls[2].text = BackupMsg
              /\ calls[2].cls = ClassWarning
C5_Witness ==
    /\ pc = "exited"
    /\ GetWeatherRaised
    /\ Len(calls) = 2
    /\ calls[2].text = BackupMsg
    /\ e = ConnectionFailed

\* C6: a run whose file write succeeds ends with exit status 0 on both
\* paths, the connection failure never escapes the driver, and every started
\* run does end.
C6_ExitZeroWhenWriteSucceeds ==
    /\ [](uncaught # ConnectionFailed)
    /\ []((pc = "exited" /\ ~WriteFailed) => ExitStatus = 0)
    /\ [](pc = "L50" => <>(pc = "exited"))
C6_Witness ==
    /\ pc = "exited"
    /\ GetWeatherRaised
    /\ ~WriteFailed
    /\ ExitStatus = 0
    /\ Len(UpdateCalls) = 1

\* C7: after a run that completed its write, index.html is exactly the one
\* document of that run's last update_website call: what the file held
\* before is gone and nothing is appended to it.
C7_FullyReplaced ==
    FinishedByWriting =>
        \E t \in 0..now :
            file = Render(calls[Len(calls)].text, calls[Len(calls)].cls, t)
C7_Witness ==
    /\ FinishedByWriting
    /\ runs >= 2
    /\ IsDocument(file_at_start)
    /\ H2Text(file_at_start) # H2Text(file)
    /\ \E t \in 0..now :
            file = Render(calls[Len(calls)].text, calls[Len(calls)].cls, t)

\* C8: a second completed update_website call with the same arguments
\* leaves index.html as the first one left it, the timestamp field apart.
C8_IdempotentButTimestamp ==
    [][(/\ pc = "harness"
        /\ Len(calls) >= 1
        /\ Len(calls') = Len(calls) + 1
        /\ ~calls[Len(calls)].raised
        /\ ~calls'[Len(calls')].raised)
          => MaskTimestamp(file') = MaskTimestamp(file)]_vars
C8_Witness ==
    /\ pc = "harness"
    /\ Len(calls) >= 2
    /\ ~calls[Len(calls)].raised
    /\ ~calls[Len(calls) - 1].raised
    /\ now >= TicksPerSecond
    /\ file = Render(status_text, css_class, now)

\* C9: a get_weather call leaves index.html as it is, and every change of
\* index.html happens in an update_website call.
C9_GetWeatherNoSideEffect ==
    [][/\ (Len(calls') = Len(calls) + 1 /\ calls'[Len(calls')].fn = "get_weather")
           => file' = file
       /\ file' # file
           => (Len(calls') = Len(calls) + 1
               /\ calls'[Len(calls')].fn = "update_website")]_vars
C9_Witness ==
    /\ pc = "L57"
    /\ Len(calls) = 1
    /\ calls[1].fn = "get_weather"
    /\ IsDocument(file)
    /\ file = file_at_start

\* C10: update_website is called with the backup message and the warning
\* class only in a run in which get_weather raised.
C10_FallbackOnlyAfterRaise ==
    \A i \in DOMAIN calls :
        (calls[i].fn = "update_website" /\ calls[i].text = BackupMsg
            /\ calls[i].cls = ClassWarning)
          => GetWeatherRaised

====
